---- MODULE Spec2Model ----
(***************************************************************************)
(* Probing-and-matching engine of osint-d2: the manifest runner            *)
(* (adapters/sherlock_runner.py) and the site-list runners                 *)
(* (adapters/site_lists/runner.py).                                        *)
(*                                                                         *)
(* Python values of type Any are tagged records [tag, v]; a string is a    *)
(* sequence of one-character strings.                                      *)
(***************************************************************************)
EXTENDS Integers, Sequences, FiniteSets, TLC

\* ------------------------------------------------------------------ bounds
MaxText == 2        \* longest response body
MaxMarker == 1      \* longest errorMsg marker string
MaxList == 2        \* longest errorCode / errorMsg list
MaxTypes == 3       \* longest errorType list
MaxSites == 2       \* most entries of a catalog
MaxUsers == 2       \* most identifiers of a run
MaxConc == 2        \* largest max_concurrency passed to a runner

\* ----------------------------------------------------------------- strings
Alphabet == {"a", "A"}

SeqsUpTo(S, n) == UNION {[1..k -> S] : k \in 0..n}

\* str.lower() on one character (ASCII letters)
UpperLetters == <<"A", "B", "C", "D", "E", "F", "G", "H", "I", "J", "K", "L", "M",
                 "N", "O", "P", "Q", "R", "S", "T", "U", "V", "W", "X", "Y", "Z">>
LowerLetters == <<"a", "b", "c", "d", "e", "f", "g", "h", "i", "j", "k", "l", "m",
                 "n", "o", "p", "q", "r", "s", "t", "u", "v", "w", "x", "y", "z">>

LowerChar(c) ==
    IF \E i \in 1..Len(UpperLetters) : UpperLetters[i] = c
    THEN LowerLetters[CHOOSE i \in 1..Len(UpperLetters) : UpperLetters[i] = c]
    ELSE c

Lower(s) == [i \in 1..Len(s) |-> LowerChar(s[i])]

\* `needle in text` on str: substring search; "" occurs in every text
StrIn(needle, text) ==
    \E i \in 0..(Len(text) - Len(needle)) :
        SubSeq(text, i + 1, i + Len(needle)) = needle

\* ------------------------------------------------------ Python Any values
Py(tag, v) == [tag |-> tag, v |-> v]
PyNone == Py("none", <<>>)
PyStr(s) == Py("str", s)
PyInt(n) == Py("int", n)
PyList(l) == Py("list", l)

\* bool(x) for the tagged values
Truthy(x) ==
    CASE x.tag = "none" -> FALSE
      [] x.tag = "str" -> x.v # <<>>
      [] x.tag = "list" -> x.v # <<>>
      [] x.tag = "int" -> x.v # 0
      [] x.tag = "bool" -> x.v
      [] x.tag = "set" -> x.v # {}
      [] OTHER -> TRUE

\* ------------------------------------------------------------------ _slug
Whitespace == {" "}
AlnumChars == {"a", "A", "n", "N", "s", "S", "f", "F", "w", "W", "i", "t", "e", "0"}
SlugMax == 60

\* str.strip(chars)
Strip(s, chars) ==
    LET keep == {i \in 1..Len(s) : s[i] \notin chars} IN
    IF keep = {} THEN <<>>
    ELSE SubSeq(s, CHOOSE i \in keep : \A j \in keep : i <= j,
                   CHOOSE i \in keep : \A j \in keep : i >= j)

RECURSIVE CollapseRuns(_)
\* adjacent "-" reduced to one
CollapseRuns(s) ==
    IF Len(s) < 2 THEN s
    ELSE IF s[1] = "-" /\ s[2] = "-" THEN CollapseRuns(Tail(s))
    ELSE <<s[1]>> \o CollapseRuns(Tail(s))

\* mutant: runs of replaced characters are collapsed into one separator
_slug_collapsing(name) ==
    LET low == Lower(Strip(name, Whitespace))
        out == [i \in 1..Len(low) |->
                   IF low[i] \in AlnumChars THEN low[i]
                   ELSE IF low[i] \in {"-", "_"} THEN low[i]
                   ELSE "-"]
        s == CollapseRuns(Strip(out, {"-"}))
        cut == SubSeq(s, 1, IF Len(s) < SlugMax THEN Len(s) ELSE SlugMax)
    IN IF cut = <<>> THEN <<"s", "i", "t", "e">> ELSE cut

\* _slug of adapters/sherlock_runner.py
_slug(name) ==
    LET low == Lower(Strip(name, Whitespace))
        out == [i \in 1..Len(low) |->
                   IF low[i] \in AlnumChars THEN low[i]
                   ELSE IF low[i] \in {"-", "_"} THEN low[i]
                   ELSE "-"]
        s == Strip(out, {"-"})
        cut == SubSeq(s, 1, IF Len(s) < SlugMax THEN Len(s) ELSE SlugMax)
    IN IF cut = <<>> THEN <<"s", "i", "t", "e">> ELSE cut

\* _slug of adapters/site_lists/runner.py
_slug_site_lists(name) ==
    LET low == Lower(Strip(name, Whitespace))
        out == [i \in 1..Len(low) |->
                   IF low[i] \in AlnumChars THEN low[i]
                   ELSE IF low[i] \in {"-", "_"} THEN low[i]
                   ELSE "-"]
        s == Strip(out, {"-"})
        cut == SubSeq(s, 1, IF Len(s) < SlugMax THEN Len(s) ELSE SlugMax)
    IN IF cut = <<>> THEN <<"s", "i", "t", "e">> ELSE cut

\* ------------------------------------------------- sherlock_runner helpers
\* mutant: case-insensitive substring test
_contains_any_nocase(text, needle) ==
    IF ~Truthy(needle) THEN FALSE
    ELSE IF needle.tag = "str" THEN StrIn(Lower(needle.v), Lower(text))
    ELSE IF needle.tag = "list"
         THEN \E i \in 1..Len(needle.v) :
                 needle.v[i].tag = "str" /\ StrIn(Lower(needle.v[i].v), Lower(text))
    ELSE FALSE

_contains_any(text, needle) ==
    IF ~Truthy(needle) THEN FALSE
    ELSE IF needle.tag = "str" THEN StrIn(needle.v, text)
    ELSE IF needle.tag = "list"
         THEN \E i \in 1..Len(needle.v) :
                 needle.v[i].tag = "str" /\ StrIn(needle.v[i].v, text)
    ELSE FALSE

\* the list error_types that check builds from info["errorType"]
ErrorTypes(info) ==
    LET et == info.errorType IN
    IF et.tag = "str" THEN <<et.v>>
    ELSE IF et.tag = "list"
         THEN LET strs == SelectSeq(et.v, LAMBDA t : t.tag = "str")
              IN [i \in 1..Len(strs) |-> strs[i].v]
    ELSE <<>>

InList(x, l) == \E i \in 1..Len(l) : l[i] = x

\* request_method after the isinstance test and .upper()
RequestMethod(info) ==
    LET rm == info.request_method IN
    IF rm.tag # "str" THEN "GET"
    ELSE IF rm.v \in {"HEAD", "head"} THEN "HEAD"
    ELSE IF rm.v \in {"GET", "get"} THEN "GET"
    ELSE rm.v

\* mutant: the body of a HEAD response is read like any other
ResponseTextWithBody(info, body) == body

\* the text check classifies: HEAD never reads the body
ResponseText(info, body) ==
    IF RequestMethod(info) = "HEAD" THEN <<>> ELSE body

\* error_codes after normalisation: a list of ints, or None
ErrorCodes(info) ==
    LET ec == info.errorCode IN
    IF ec.tag = "int" THEN PyList(<<ec.v>>)
    ELSE IF ec.tag = "list"
         THEN LET ints == SelectSeq(ec.v, LAMBDA c : c.tag = "int")
              IN PyList([i \in 1..Len(ints) |-> ints[i].v])
    ELSE PyNone

SuccessStatus(status) == 200 <= status /\ status < 300

\* mutant: the message rule is consulted before the status_code rule
ExistsMessageFirst(info, status, text) ==
    LET error_types == ErrorTypes(info)
        e1 == IF InList("response_url", error_types)
              THEN Py("bool", SuccessStatus(status)) ELSE PyNone
        e2 == IF InList("message", error_types) /\ e1.tag = "none"
              THEN Py("bool", ~_contains_any(text, info.errorMsg))
              ELSE e1
        e3 == IF InList("status_code", error_types) /\ e2.tag = "none"
              THEN LET error_codes == ErrorCodes(info) IN
                   IF status < 200 \/ status >= 300 THEN Py("bool", FALSE)
                   ELSE IF Truthy(error_codes) /\ InList(status, error_codes.v)
                        THEN Py("bool", FALSE)
                   ELSE Py("bool", TRUE)
              ELSE e2
        e4 == IF e3.tag = "none" THEN Py("bool", SuccessStatus(status)) ELSE e3
    IN e4.v

\* mutant: the status_code rule forgets the success-range test
ExistsNoRange(info, status, text) ==
    LET error_types == ErrorTypes(info)
        e1 == IF InList("response_url", error_types)
              THEN Py("bool", SuccessStatus(status)) ELSE PyNone
        e2 == IF InList("status_code", error_types) /\ e1.tag = "none"
              THEN LET error_codes == ErrorCodes(info) IN
                   IF Truthy(error_codes) /\ InList(status, error_codes.v)
                        THEN Py("bool", FALSE)
                   ELSE Py("bool", TRUE)
              ELSE e1
        e3 == IF InList("message", error_types) /\ e2.tag = "none"
              THEN Py("bool", ~_contains_any(text, info.errorMsg))
              ELSE e2
        e4 == IF e3.tag = "none" THEN Py("bool", SuccessStatus(status)) ELSE e3
    IN e4.v

\* the verdict `exists` of check, from the response status and text
Exists(info, status, text) ==
    LET error_types == ErrorTypes(info)
        e1 == IF InList("response_url", error_types)
              THEN Py("bool", SuccessStatus(status)) ELSE PyNone
        e2 == IF InList("status_code", error_types) /\ e1.tag = "none"
              THEN LET error_codes == ErrorCodes(info) IN
                   IF status < 200 \/ status >= 300 THEN Py("bool", FALSE)
                   ELSE IF Truthy(error_codes) /\ InList(status, error_codes.v)
                        THEN Py("bool", FALSE)
                   ELSE Py("bool", TRUE)
              ELSE e1
        e3 == IF InList("message", error_types) /\ e2.tag = "none"
              THEN Py("bool", ~_contains_any(text, info.errorMsg))
              ELSE e2
        e4 == IF e3.tag = "none" THEN Py("bool", SuccessStatus(status)) ELSE e3
    IN e4.v

\* ------------------------------------------------------ site_lists helpers
\* mutant: the false-positive status m_code is not consulted
_match_found_no_m_code(text, status_code, e_code, e_string, m_code, m_string) ==
    IF status_code # e_code THEN FALSE
    ELSE IF ~StrIn(e_string, text) THEN FALSE
    ELSE IF Truthy(m_string) /\ StrIn(m_string.v, text) THEN FALSE
    ELSE TRUE

_match_found(text, status_code, e_code, e_string, m_code, m_string) ==
    IF status_code # e_code THEN FALSE
    ELSE IF ~StrIn(e_string, text) THEN FALSE
    ELSE IF m_code.tag # "none" /\ status_code = m_code.v THEN FALSE
    ELSE IF Truthy(m_string) /\ StrIn(m_string.v, text) THEN FALSE
    ELSE TRUE

\* mutant: the category is searched for "nsfw" as it is written
_is_nsfw_category_cased(category) ==
    IF ~Truthy(category) THEN FALSE
    ELSE StrIn(<<"n", "s", "f", "w">>, category.v)

\* site_lists _is_nsfw(category): "nsfw" in category.lower()
_is_nsfw_category(category) ==
    IF ~Truthy(category) THEN FALSE
    ELSE StrIn(<<"n", "s", "f", "w">>, Lower(category.v))

\* sherlock _is_nsfw(info): bool(info.get("isNSFW"))
_is_nsfw(info) == Truthy(info.isNSFW)


\* ------------------------------------------------------------- run inputs
\* manifest entries (site_name -> info), one per shape the runner tells apart
SherlockEntry(key, isDict, nsfw, url, method, etype, ecode, emsg) ==
    [key |-> key, isDict |-> isDict, isNSFW |-> nsfw, url |-> url,
     request_method |-> method, errorType |-> etype, errorCode |-> ecode,
     errorMsg |-> emsg]

UrlTemplate == PyStr(<<"u">>)

SherlockPool ==
    { SherlockEntry("site", TRUE, Py("bool", FALSE), UrlTemplate, PyNone,
                    PyStr("status_code"), PyInt(404), PyNone),
      SherlockEntry("site", TRUE, Py("bool", TRUE), UrlTemplate, PyNone,
                    PyStr("status_code"), PyInt(404), PyNone),
      SherlockEntry("site", TRUE, PyNone, PyNone, PyNone,
                    PyStr("status_code"), PyInt(404), PyNone),
      SherlockEntry("site", FALSE, PyNone, PyNone, PyNone, PyNone, PyNone, PyNone),
      SherlockEntry("$schema", TRUE, PyNone, UrlTemplate, PyNone,
                    PyStr("status_code"), PyInt(404), PyNone),
      SherlockEntry("site", TRUE, PyNone, UrlTemplate, PyStr("GET"),
                    PyStr("message"), PyNone, PyStr(<<"a">>)) }

\* site-list entries (UsernameSite / EmailSite)
ListSite(cat, e_code, e_string, m_code, m_string, method) ==
    [cat |-> cat, e_code |-> e_code, e_string |-> e_string, m_code |-> m_code,
     m_string |-> m_string, method |-> method]

ListPool ==
    { ListSite(PyStr(<<"S">>), 200, <<"a">>, PyNone, PyNone, PyNone),
      ListSite(PyStr(<<"N", "S", "F", "W">>), 200, <<>>, PyNone, PyNone, PyNone),
      ListSite(PyNone, 200, <<>>, PyInt(200), PyStr(<<"A">>), PyStr("POST")) }

Pool(r) == IF r = "sherlock" THEN SherlockPool ELSE ListPool

Runners == {"sherlock", "username", "email"}

Identifiers == 1..MaxUsers

\* identifier lists up to renaming: the k-th new identifier is k
Canonical(l) ==
    \A i \in 1..Len(l) :
        \/ l[i] = 1
        \/ \E j \in 1..(i - 1) : l[j] >= l[i] - 1

UsernameLists == {l \in SeqsUpTo(Identifiers, MaxUsers) : Canonical(l)}

CategorySets == {PyNone, Py("set", {}), Py("set", {<<"s">>})}

\* what the caller's progress callback does when invoked
CallbackKinds == {"none", "ok", "raises_first", "raises_later"}

RunStatuses == {200, 404}
RunBodies == {<<>>, <<"a">>}

\* ------------------------------------------------------------------ state
VARIABLES
    runner,            \* which of the three runners this run is
    manifest,          \* the catalog, in iteration order
    usernames,         \* the identifier list
    max_concurrency,
    no_nsfw,
    categories,
    progress_callback, \* its kind
    pc,                \* where the runner coroutine is
    sem,               \* asyncio.Semaphore: free permits
    waiters,           \* tasks blocked in sem.acquire(), in arrival order
    items,             \* indices of the catalog entries that passed the filter
    total,
    client,            \* the shared HTTP client
    tasks,             \* the check() tasks, in creation order
    finished,          \* task ids in completion order
    completed,
    found,
    calls,             \* invocations of progress_callback, in order
    c_info, c_resp, c_exists,  \* classification of one response taken alone
    profiles,          \* _hunt_async: the collected SocialProfile list
    history,           \* the values `profiles` had before each reassignment
    strict             \* the --strict option

runVars == <<runner, manifest, usernames, max_concurrency, no_nsfw, categories,
             progress_callback, pc, sem, waiters, items, total, client, tasks,
             finished, completed, found, calls>>
inputVars == <<runner, manifest, usernames, max_concurrency, no_nsfw, categories,
               progress_callback>>
clsVars == <<c_info, c_resp, c_exists>>
cliVars == <<profiles, history, strict>>
vars == <<runner, manifest, usernames, max_concurrency, no_nsfw, categories,
          progress_callback, pc, sem, waiters, items, total, client, tasks,
          finished, completed, found, calls, c_info, c_resp, c_exists,
          profiles, history, strict>>

\* _hunt_async has collected nothing
IdleHunt == profiles = <<>> /\ history = <<>> /\ strict = FALSE

Max(a, b) == IF a >= b THEN a ELSE b

NoInfo == SherlockEntry("site", FALSE, PyNone, PyNone, PyNone, PyNone, PyNone, PyNone)
NoResp == [status |-> 0, body |-> <<>>]

Init ==
    /\ runner \in Runners
    /\ manifest \in SeqsUpTo(Pool(runner), MaxSites)
    /\ usernames \in UsernameLists
    /\ max_concurrency \in (-1)..MaxConc
    /\ no_nsfw \in BOOLEAN
    /\ categories \in (IF runner = "sherlock" THEN {PyNone} ELSE CategorySets)
    /\ progress_callback \in (IF runner = "sherlock" THEN CallbackKinds ELSE {"none"})
    /\ pc = "start"
    /\ sem = 0
    /\ waiters = <<>>
    /\ items = <<>>
    /\ total = 0
    /\ client = "unopened"
    /\ tasks = <<>>
    /\ finished = <<>>
    /\ completed = 0
    /\ found = <<>>
    /\ calls = <<>>
    /\ c_info = NoInfo
    /\ c_resp = NoResp
    /\ c_exists = "idle"
    /\ IdleHunt


\* ---------------------------------------------------------- catalog filter
Indices(l) == [i \in 1..Len(l) |-> i]

\* mutant: the filter also drops the entries without a usable url
KeepManifestEntryWithUrl(info, nsfw_off) ==
    /\ info.key # "$schema"
    /\ info.isDict
    /\ ~(nsfw_off /\ _is_nsfw(info))
    /\ info.url.tag = "str" /\ info.url.v # <<>>

\* the loop that builds `items` in run_sherlock_username
KeepManifestEntry(info, nsfw_off) ==
    /\ info.key # "$schema"
    /\ info.isDict
    /\ ~(nsfw_off /\ _is_nsfw(info))

\* the loops that build `filtered` in run_username_sites / run_email_sites
KeepListSite(s, cats, nsfw_off) ==
    /\ ~(nsfw_off /\ _is_nsfw_category(s.cat))
    /\ ~(Truthy(cats) /\ Truthy(s.cat) /\ Lower(s.cat.v) \notin cats.v)

Filtered ==
    SelectSeq(Indices(manifest),
              LAMBDA i : IF runner = "sherlock"
                         THEN KeepManifestEntry(manifest[i], no_nsfw)
                         ELSE KeepListSite(manifest[i], categories, no_nsfw))

\* total = len(items) * max(1, len(usernames))
Total(n_items, n_users) == n_items * Max(1, n_users)

\* ------------------------------------------------------------- the tasks
Call(done, tot, label) == [done |-> done, total |-> tot, label |-> label]

NewTask(site, user) ==
    [site |-> site, user |-> user, st |-> "created", requests |-> 0,
     outcome |-> "none", result |-> <<>>]

\* for name, info in items: for username in usernames: create_task(check(...))
\* (and the generator handed to gather, which iterates the same way)
CrossProduct(its, n_users) ==
    [k \in 1..(Len(its) * n_users) |->
        NewTask(its[((k - 1) \div n_users) + 1], ((k - 1) % n_users) + 1)]

\* check: `if not isinstance(url_t, str) or not url_t: return None`
UsableUrl(info) == info.url.tag = "str" /\ info.url.v # <<>>

Source(r) ==
    CASE r = "sherlock" -> "sherlock"
      [] r = "username" -> "site_list"
      [] r = "email" -> "email_site_list"

\* the name of the i-th catalog entry (the manifest key, site.name): distinct
\* names with blanks, capitals and punctuation around them
SiteName(i) == <<" ">> \o [j \in 1..i |-> "A"] \o <<"!">>

\* network_name=_slug(site_name) for every entry of a catalog
NetworkNames == [i \in 1..MaxSites |-> _slug(SiteName(i))]

\* adapters.http_client.extract_html_metadata, by its contract: a map comes
\* back for every body, nothing is raised
ExtractRaises == FALSE

\* the SocialProfile check returns on a positive verdict
Profile(t, status) ==
    [existe |-> TRUE, username |-> usernames[t.user], site_name |-> t.site,
     network_name |-> NetworkNames[t.site], status_code |-> status,
     source |-> Source(runner)]

\* the verdict of one response, by the dialect of the runner
Verdict(site, status, body) ==
    IF runner = "sherlock"
    THEN Exists(site, status, ResponseText(site, body))
    ELSE _match_found(body, status, site.e_code, site.e_string, site.m_code,
                      site.m_string)

InFlight == {k \in 1..Len(tasks) : tasks[k].st = "inflight"}

\* ------------------------------------------------------------ the actions
\* mutant: the semaphore is built from max_concurrency as given
BeginNoFloor ==
    /\ pc = "start"
    /\ sem' = IF max_concurrency < 0 THEN 0 ELSE max_concurrency
    /\ items' = Filtered
    /\ IF runner = "sherlock"
       THEN /\ total' = Total(Len(Filtered), Len(usernames))
            /\ calls' = IF progress_callback # "none"
                        THEN <<Call(0, total', <<>>)>> ELSE calls
            /\ pc' = IF progress_callback = "raises_first"
                     THEN "raised" ELSE "filtered"
       ELSE /\ pc' = "filtered"
            /\ UNCHANGED <<total, calls>>
    /\ UNCHANGED <<inputVars, waiters, client, tasks, finished, completed, found,
                   clsVars, cliVars>>

\* the synchronous prologue: semaphore, filter, total, first progress tick
Begin ==
    /\ pc = "start"
    /\ sem' = Max(1, max_concurrency)
    /\ items' = Filtered
    /\ IF runner = "sherlock"
       THEN /\ total' = Total(Len(Filtered), Len(usernames))
            /\ calls' = IF progress_callback # "none"
                        THEN <<Call(0, total', <<>>)>> ELSE calls
            /\ pc' = IF progress_callback = "raises_first"
                     THEN "raised" ELSE "filtered"
       ELSE /\ pc' = "filtered"
            /\ UNCHANGED <<total, calls>>
    /\ UNCHANGED <<inputVars, waiters, client, tasks, finished, completed, found,
                   clsVars, cliVars>>

\* async with build_async_client(...): every check task is created, none has run
CreateTasks ==
    /\ pc = "filtered"
    /\ client' = "open"
    /\ tasks' = CrossProduct(items, Len(usernames))
    /\ pc' = "running"
    /\ UNCHANGED <<inputVars, sem, waiters, items, total, finished, completed,
                   found, calls, clsVars, cliVars>>

\* mutant: the request is sent without entering `async with sem`
StartTaskNoSem(k) ==
    /\ pc = "running"
    /\ tasks[k].st = "created"
    /\ \A j \in 1..(k - 1) : tasks[j].st # "created"
    /\ IF runner = "sherlock" /\ ~UsableUrl(manifest[tasks[k].site])
       THEN /\ tasks' = [tasks EXCEPT ![k].st = "done", ![k].outcome = "nourl"]
            /\ finished' = Append(finished, k)
       ELSE /\ tasks' = [tasks EXCEPT ![k].st = "inflight",
                                      ![k].requests = @ + 1]
            /\ UNCHANGED finished
    /\ UNCHANGED <<inputVars, pc, sem, waiters, items, total, client, completed,
                   found, calls, clsVars, cliVars>>

\* adapters.site_lists.operations.apply_input_operation, by its description:
\* a transform of the identifier (hashing, case-folding) that gives a value
\* for every identifier
InputOperationRaises == FALSE

\* a task runs to its first suspension point; tasks start in creation order.
\* (run_email_sites first rewrites the identifier with apply_input_operation,
\* which only changes the url and body that are sent.)
StartTask(k) ==
    /\ pc = "running"
    /\ tasks[k].st = "created"
    /\ ~(runner = "email" /\ InputOperationRaises)
    /\ \A j \in 1..(k - 1) : tasks[j].st # "created"
    /\ IF runner = "sherlock" /\ ~UsableUrl(manifest[tasks[k].site])
       THEN /\ tasks' = [tasks EXCEPT ![k].st = "done", ![k].outcome = "nourl"]
            /\ finished' = Append(finished, k)
            /\ UNCHANGED <<sem, waiters>>
       ELSE IF sem > 0 /\ waiters = <<>>
       THEN /\ sem' = sem - 1
            /\ tasks' = [tasks EXCEPT ![k].st = "inflight",
                                      ![k].requests = @ + 1]
            /\ UNCHANGED <<waiters, finished>>
       ELSE /\ tasks' = [tasks EXCEPT ![k].st = "waiting"]
            /\ waiters' = Append(waiters, k)
            /\ UNCHANGED <<sem, finished>>
    /\ UNCHANGED <<inputVars, pc, items, total, client, completed, found, calls,
                   clsVars, cliVars>>

\* the first waiter of the semaphore gets the freed permit and sends its request
WakeTask ==
    /\ pc = "running"
    /\ waiters # <<>>
    /\ sem > 0
    /\ sem' = sem - 1
    /\ waiters' = Tail(waiters)
    /\ tasks' = [tasks EXCEPT ![Head(waiters)].st = "inflight",
                              ![Head(waiters)].requests = @ + 1]
    /\ UNCHANGED <<inputVars, pc, items, total, client, finished, completed, found,
                   calls, clsVars, cliVars>>

\* mutant: the permit is kept when the verdict is negative
RespondKeepsPermit(k, status, body) ==
    /\ pc = "running"
    /\ tasks[k].st = "inflight"
    /\ LET yes == Verdict(manifest[tasks[k].site], status, body) IN
       /\ tasks' = [tasks EXCEPT
                       ![k].st = "done",
                       ![k].outcome = IF yes THEN "found" ELSE "notfound",
                       ![k].result = IF yes /\ ~ExtractRaises
                                     THEN <<Profile(tasks[k], status)>>
                                     ELSE <<>>]
       /\ sem' = IF yes THEN sem + 1 ELSE sem
    /\ finished' = Append(finished, k)
    /\ UNCHANGED <<inputVars, pc, waiters, items, total, client, completed, found,
                   calls, clsVars, cliVars>>

\* a response arrives: classify, build the profile or None, leave `async with sem`
Respond(k, status, body) ==
    /\ pc = "running"
    /\ tasks[k].st = "inflight"
    /\ LET yes == Verdict(manifest[tasks[k].site], status, body) IN
       tasks' = [tasks EXCEPT
                    ![k].st = "done",
                    ![k].outcome = IF yes THEN "found" ELSE "notfound",
                    ![k].result = IF yes /\ ~ExtractRaises
                                  THEN <<Profile(tasks[k], status)>>
                                  ELSE <<>>]
    /\ sem' = sem + 1
    /\ finished' = Append(finished, k)
    /\ UNCHANGED <<inputVars, pc, waiters, items, total, client, completed, found,
                   calls, clsVars, cliVars>>

\* mutant: no except clause, the exception leaves the task and the run
TransportFailureEscapes(k) ==
    /\ pc = "running"
    /\ tasks[k].st = "inflight"
    /\ tasks' = [tasks EXCEPT ![k].st = "done", ![k].outcome = "failed"]
    /\ sem' = sem + 1
    /\ finished' = Append(finished, k)
    /\ pc' = "raised"
    /\ UNCHANGED <<inputVars, waiters, items, total, client, completed, found,
                   calls, clsVars, cliVars>>

\* mutant: a failed request is sent once more
TransportFailureRetry(k) ==
    /\ pc = "running"
    /\ tasks[k].st = "inflight"
    /\ IF tasks[k].requests < 2
       THEN /\ tasks' = [tasks EXCEPT ![k].requests = @ + 1]
            /\ UNCHANGED <<sem, finished>>
       ELSE /\ tasks' = [tasks EXCEPT ![k].st = "done", ![k].outcome = "failed"]
            /\ sem' = sem + 1
            /\ finished' = Append(finished, k)
    /\ UNCHANGED <<inputVars, pc, waiters, items, total, client, completed, found,
                   calls, clsVars, cliVars>>

\* the request raises (timeout, connection error, ...): except Exception: return None
TransportFailure(k) ==
    /\ pc = "running"
    /\ tasks[k].st = "inflight"
    /\ tasks' = [tasks EXCEPT ![k].st = "done", ![k].outcome = "failed"]
    /\ sem' = sem + 1
    /\ finished' = Append(finished, k)
    /\ UNCHANGED <<inputVars, pc, waiters, items, total, client, completed, found,
                   calls, clsVars, cliVars>>

\* task_labels[t] = f"sherlock:{name}:{username}", by the parts of the label
LabelOf(k) == <<"sherlock", SiteName(tasks[k].site), usernames[tasks[k].user]>>

\* the key as_completed hands to task_labels.get: a fresh awaitable, never a task
\* of task_labels, so the default "" comes back
TaskLabel(k) == <<>>

\* mutant: progress ticks only for the tasks that found a profile
NextCompletedFoundOnly ==
    /\ pc = "running"
    /\ runner = "sherlock"
    /\ completed < Len(finished)
    /\ LET k == finished[completed + 1] IN
       /\ completed' = completed + 1
       /\ calls' = IF progress_callback # "none" /\ tasks[k].result # <<>>
                   THEN Append(calls, Call(completed + 1, total, TaskLabel(k)))
                   ELSE calls
       /\ found' = IF tasks[k].result # <<>>
                   THEN Append(found, tasks[k].result[1]) ELSE found
    /\ UNCHANGED <<inputVars, pc, sem, waiters, items, total, client, tasks,
                   finished, clsVars, cliVars>>

\* mutant: the tick reports the position of the task in the submission order
NextCompletedBySubmission ==
    /\ pc = "running"
    /\ runner = "sherlock"
    /\ completed < Len(finished)
    /\ LET k == finished[completed + 1] IN
       /\ completed' = completed + 1
       /\ calls' = IF progress_callback # "none"
                   THEN Append(calls, Call(k, total, TaskLabel(k)))
                   ELSE calls
       /\ found' = IF tasks[k].result # <<>>
                   THEN Append(found, tasks[k].result[1]) ELSE found
    /\ UNCHANGED <<inputVars, pc, sem, waiters, items, total, client, tasks,
                   finished, clsVars, cliVars>>

\* mutant: `found` keeps only the record of the task that completed last
NextCompletedKeepsLast ==
    /\ pc = "running"
    /\ runner = "sherlock"
    /\ completed < Len(finished)
    /\ LET k == finished[completed + 1] IN
       /\ completed' = completed + 1
       /\ calls' = IF progress_callback # "none"
                   THEN Append(calls, Call(completed + 1, total, TaskLabel(k)))
                   ELSE calls
       /\ found' = IF tasks[k].result # <<>>
                   THEN <<tasks[k].result[1]>> ELSE found
    /\ UNCHANGED <<inputVars, pc, sem, waiters, items, total, client, tasks,
                   finished, clsVars, cliVars>>

\* one iteration of `for t in asyncio.as_completed(tasks)`
NextCompleted ==
    /\ pc = "running"
    /\ runner = "sherlock"
    /\ completed < Len(finished)
    /\ LET k == finished[completed + 1] IN
       /\ completed' = completed + 1
       /\ calls' = IF progress_callback # "none"
                   THEN Append(calls, Call(completed + 1, total, TaskLabel(k)))
                   ELSE calls
       /\ found' = IF tasks[k].result # <<>>
                   THEN Append(found, tasks[k].result[1]) ELSE found
    /\ UNCHANGED <<inputVars, pc, sem, waiters, items, total, client, tasks,
                   finished, clsVars, cliVars>>

\* the loop is exhausted: the client is closed and `found` returned
Return ==
    /\ pc = "running"
    /\ runner = "sherlock"
    /\ completed = Len(tasks)
    /\ client' = "closed"
    /\ pc' = "returned"
    /\ UNCHANGED <<inputVars, sem, waiters, items, total, tasks, finished,
                   completed, found, calls, clsVars, cliVars>>

RECURSIVE Results(_)
\* [r for r in results if r is not None], results in task order
Results(k) ==
    IF k = 0 THEN <<>> ELSE Results(k - 1) \o tasks[k].result

\* mutant: the runner leaves `async with` as soon as one task is done
GatherReturnOnFirst ==
    /\ pc = "running"
    /\ runner # "sherlock"
    /\ \E k \in 1..Len(tasks) : tasks[k].st = "done"
    /\ found' = Results(Len(tasks))
    /\ client' = "closed"
    /\ pc' = "returned"
    /\ UNCHANGED <<inputVars, sem, waiters, items, total, tasks, finished,
                   completed, calls, clsVars, cliVars>>

\* asyncio.gather returns once every task is done
GatherReturn ==
    /\ pc = "running"
    /\ runner # "sherlock"
    /\ \A k \in 1..Len(tasks) : tasks[k].st = "done"
    /\ found' = Results(Len(tasks))
    /\ client' = "closed"
    /\ pc' = "returned"
    /\ UNCHANGED <<inputVars, sem, waiters, items, total, tasks, finished,
                   completed, calls, clsVars, cliVars>>

Next ==
    \/ Begin
    \/ CreateTasks
    \/ \E k \in 1..Len(tasks) : StartTask(k)
    \/ WakeTask
    \/ \E k \in 1..Len(tasks), status \in RunStatuses, body \in RunBodies :
          Respond(k, status, body)
    \/ \E k \in 1..Len(tasks) : TransportFailure(k)
    \/ NextCompleted
    \/ Return
    \/ GatherReturn

Spec == Init /\ [][Next]_vars

\* the steps the event loop takes on its own: a ready coroutine is run
LoopStep ==
    \/ Begin
    \/ CreateTasks
    \/ \E k \in 1..Len(tasks) : StartTask(k)
    \/ WakeTask
    \/ NextCompleted
    \/ Return
    \/ GatherReturn

\* the steps of the network: a request that was sent is answered or fails
\* (the client's timeout)
NetworkStep ==
    \/ \E k \in 1..Len(tasks), status \in RunStatuses, body \in RunBodies :
          Respond(k, status, body)
    \/ \E k \in 1..Len(tasks) : TransportFailure(k)

\* the runs whose termination is checked: catalogs of entries that are probed
\* (a status_code and a message entry) or skipped inside check (no url)
LivePool(r) ==
    IF r = "sherlock"
    THEN {e \in SherlockPool : e.key = "site" /\ e.isDict /\ ~_is_nsfw(e)}
    ELSE {e \in ListPool : e.cat = PyNone}

InitLive ==
    /\ Init
    /\ manifest \in SeqsUpTo(LivePool(runner), MaxSites)
    /\ no_nsfw = FALSE
    /\ categories = PyNone
    /\ progress_callback \in {"none", "raises_later"}

LiveSpec == InitLive /\ [][Next]_vars /\ WF_vars(LoopStep) /\ WF_vars(NetworkStep)


\* ------------------------------------- classification of a single response
\* sequences without repetition
Distinct(l) == \A i, j \in 1..Len(l) : i # j => l[i] # l[j]

RuleNames == {"status_code", "message", "response_url"}

ErrorTypeValues ==
    {PyNone}
    \cup {PyStr(t) : t \in RuleNames \cup {"unknown"}}
    \cup {PyList(l) : l \in {q \in SeqsUpTo({PyStr(t) : t \in RuleNames}
                                            \cup {PyNone}, MaxTypes) : Distinct(q)}}

ErrorCodeValues ==
    {PyNone, PyInt(404), PyStr(<<"a">>)}
    \cup {PyList(l) : l \in SeqsUpTo({PyInt(200), PyInt(404), PyNone}, MaxList)}

Markers == SeqsUpTo(Alphabet, MaxMarker)

ErrorMsgValues ==
    {PyNone, PyInt(1)}
    \cup {PyStr(m) : m \in Markers}
    \cup {PyList(l) : l \in SeqsUpTo({PyStr(m) : m \in Markers}
                                     \cup {PyNone}, MaxList)}

MethodValues == {PyNone, PyStr("GET"), PyStr("head")}

StatusValues == {199, 200, 299, 300, 404, 500}
Bodies == SeqsUpTo(Alphabet, MaxText)

InitClassify ==
    /\ runner = "sherlock"
    /\ manifest = <<>>
    /\ usernames = <<>>
    /\ max_concurrency = 1
    /\ no_nsfw = FALSE
    /\ categories = PyNone
    /\ progress_callback = "none"
    /\ pc = "check"
    /\ sem = 0
    /\ waiters = <<>>
    /\ items = <<>>
    /\ total = 0
    /\ client = "open"
    /\ tasks = <<>>
    /\ finished = <<>>
    /\ completed = 0
    /\ found = <<>>
    /\ calls = <<>>
    /\ \E m \in MethodValues, t \in ErrorTypeValues, c \in ErrorCodeValues,
          e \in ErrorMsgValues :
          c_info = SherlockEntry("site", TRUE, PyNone, UrlTemplate, m, t, c, e)
    /\ c_resp = NoResp
    /\ c_exists = "idle"
    /\ IdleHunt

\* check, from the response to `exists`, for one entry and one response
ClassifyResponse ==
    /\ pc = "check"
    /\ c_exists = "idle"
    /\ \E status \in StatusValues, body \in Bodies :
          /\ c_resp' = [status |-> status, body |-> body]
          /\ c_exists' = IF Exists(c_info, status, ResponseText(c_info, body))
                         THEN "yes" ELSE "no"
    /\ UNCHANGED <<runVars, c_info, cliVars>>

NextClassify == ClassifyResponse

SpecClassify == InitClassify /\ [][NextClassify]_vars


\* -------------------------------- classification of a site-list response
ExpectedCodes == {200, 404}
MissCodes == {PyNone, PyInt(200), PyInt(404)}
MissStrings == {PyNone} \cup {PyStr(m) : m \in Markers}

\* the runner variables of a run that is not under way
IdleRun ==
    /\ manifest = <<>>
    /\ usernames = <<>>
    /\ max_concurrency = 1
    /\ no_nsfw = FALSE
    /\ categories = PyNone
    /\ progress_callback = "none"
    /\ sem = 0
    /\ waiters = <<>>
    /\ items = <<>>
    /\ total = 0
    /\ client = "open"
    /\ tasks = <<>>
    /\ finished = <<>>
    /\ completed = 0
    /\ found = <<>>
    /\ calls = <<>>

InitMatch ==
    /\ runner \in {"username", "email"}
    /\ IdleRun
    /\ pc = "match"
    /\ \E e_code \in ExpectedCodes, e_string \in Markers, m_code \in MissCodes,
          m_string \in MissStrings :
          c_info = ListSite(PyNone, e_code, e_string, m_code, m_string, PyNone)
    /\ c_resp = NoResp
    /\ c_exists = "idle"
    /\ IdleHunt

\* check of run_username_sites / run_email_sites, from the response to `found`
MatchResponse ==
    /\ pc = "match"
    /\ c_exists = "idle"
    /\ \E status \in StatusValues, body \in Bodies :
          /\ c_resp' = [status |-> status, body |-> body]
          /\ c_exists' = IF Verdict(c_info, status, body) THEN "yes" ELSE "no"
    /\ UNCHANGED <<runVars, c_info, cliVars>>

NextMatch == MatchResponse

SpecMatch == InitMatch /\ [][NextMatch]_vars

\* ------------------------------------------------- cli/main.py: the helpers
\* str(x) for the tagged values that reach it
PyToStr(x) ==
    CASE x.tag = "str" -> x.v
      [] x.tag = "none" -> <<"N", "o", "n", "e">>
      [] OTHER -> <<>>

\* the key of _dedupe_profiles: (p.network_name, p.username, str(p.url))
DedupeKey(p) == <<p.network_name, p.username, PyToStr(p.url)>>

RECURSIVE DedupeLoopKeepLast(_, _, _)
DedupeLoopKeepLast(rest, seen, out) ==
    IF rest = <<>> THEN out
    ELSE LET p == Head(rest) IN
         IF DedupeKey(p) \in seen
         THEN DedupeLoopKeepLast(Tail(rest), seen,
                  [i \in 1..Len(out) |->
                      IF DedupeKey(out[i]) = DedupeKey(p) THEN p ELSE out[i]])
         ELSE DedupeLoopKeepLast(Tail(rest), seen \cup {DedupeKey(p)},
                                 Append(out, p))

\* mutant: a later duplicate replaces the record seen first
_dedupe_profiles_keep_last(ps) == DedupeLoopKeepLast(ps, {}, <<>>)

RECURSIVE DedupeLoop(_, _, _)
\* the for loop of _dedupe_profiles over the rest of the input
DedupeLoop(rest, seen, out) ==
    IF rest = <<>> THEN out
    ELSE LET p == Head(rest) IN
         IF DedupeKey(p) \in seen
         THEN DedupeLoop(Tail(rest), seen, out)
         ELSE DedupeLoop(Tail(rest), seen \cup {DedupeKey(p)}, Append(out, p))

_dedupe_profiles(ps) == DedupeLoop(ps, {}, <<>>)

_STRICT_SHERLOCK_DENYLIST ==
    {<<"a", "v", "i", "z", "o">>,
     <<"f", "a", "n", "p", "o", "p">>,
     <<"h", "u", "b", "s", "k", "i">>}

_STRICT_SUSPICIOUS_URL_PARTS ==
    <<<<"l", "o", "g", "i", "n">>,
      <<"s", "i", "g", "n", "_", "i", "n">>,
      <<"c", "o", "n", "s", "e", "n", "t">>,
      <<"p", "r", "i", "v", "a", "c", "y">>,
      <<"c", "o", "o", "k", "i", "e">>,
      <<"r", "e", "d", "i", "r", "e", "c", "t">>,
      <<"r", "e", "t", "u", "r", "n", "_", "u", "r", "l", "=">>,
      <<"c", "a", "l", "l", "b", "a", "c", "k", "u", "r", "l", "=">>,
      <<"s", "e", "a", "r", "c", "h", "?">>,
      <<"s", "e", "a", "r", "c", "h", "/", "?">>,
      <<"v", "e", "n", "d", "o", "r", "_", "n", "o", "t", "_", "f", "o", "u", "n", "d">>,
      <<"n", "a", "s", "t", "a", "v", "e", "n", "i", "-", "s", "o", "u", "h", "l", "a", "s", "u">>>>

\* final_url_l = str(md.get("final_url") or profile.url).lower()
FinalUrlLower(profile) ==
    Lower(PyToStr(IF Truthy(profile.metadata.final_url)
                  THEN profile.metadata.final_url ELSE profile.url))

\* any(p in final_url_l for p in _STRICT_SUSPICIOUS_URL_PARTS)
Suspicious(final_url_l) ==
    \E i \in 1..Len(_STRICT_SUSPICIOUS_URL_PARTS) :
        StrIn(_STRICT_SUSPICIOUS_URL_PARTS[i], final_url_l)

\* the three tests on username.lower(): final url, title, meta_description
IdentifierEvidence(profile, username) ==
    LET username_l == Lower(username)
        title == profile.metadata.title
        desc == profile.metadata.meta_description
    IN \/ StrIn(username_l, FinalUrlLower(profile))
       \/ title.tag = "str" /\ StrIn(username_l, Lower(title.v))
       \/ desc.tag = "str" /\ StrIn(username_l, Lower(desc.v))

\* mutant: the identifier tests come before the suspicious-url test
_strict_keep_profile_evidence_first(profile, username) ==
    IF ~profile.existe THEN FALSE
    ELSE IF profile.metadata.source # PyStr("sherlock") THEN TRUE
    ELSE IF profile.network_name \in _STRICT_SHERLOCK_DENYLIST THEN FALSE
    ELSE IF IdentifierEvidence(profile, username) THEN TRUE
    ELSE IF Suspicious(FinalUrlLower(profile)) THEN FALSE
    ELSE FALSE

\* mutant: a record without identifier evidence is kept
_strict_keep_profile_deny_biased(profile, username) ==
    IF ~profile.existe THEN FALSE
    ELSE IF profile.metadata.source # PyStr("sherlock") THEN TRUE
    ELSE IF profile.network_name \in _STRICT_SHERLOCK_DENYLIST THEN FALSE
    ELSE IF Suspicious(FinalUrlLower(profile)) THEN FALSE
    ELSE TRUE

\* mutant: identifier evidence overrides the deny-list
_strict_keep_profile_denylist_last(profile, username) ==
    IF ~profile.existe THEN FALSE
    ELSE IF profile.metadata.source # PyStr("sherlock") THEN TRUE
    ELSE IF Suspicious(FinalUrlLower(profile)) THEN FALSE
    ELSE IF IdentifierEvidence(profile, username) THEN TRUE
    ELSE FALSE

\* a metadata that is no dict is read as {}: every md.get gives None
_strict_keep_profile(profile, username) ==
    IF ~profile.existe THEN FALSE
    ELSE IF profile.metadata.source # PyStr("sherlock") THEN TRUE
    ELSE IF profile.network_name \in _STRICT_SHERLOCK_DENYLIST THEN FALSE
    ELSE IF Suspicious(FinalUrlLower(profile)) THEN FALSE
    ELSE IF IdentifierEvidence(profile, username) THEN TRUE
    ELSE FALSE

\* `if strict and usernames: profiles = [p for p in profiles if any(...)]`
StrictFilter(ps, on, names) ==
    IF on /\ names # <<>>
    THEN SelectSeq(ps, LAMBDA p : \E i \in 1..Len(names) :
                                     _strict_keep_profile(p, names[i]))
    ELSE ps


\* ------------------------------------------------------- _dedupe_profiles
MaxProfiles == 3    \* longest list handed to _dedupe_profiles

DedupeRecords ==
    [network_name : {<<"a">>, <<"s">>}, username : {<<"a">>, <<"A">>},
     url : {PyStr(<<"u">>), PyStr(<<"u", "a">>)}, metadata : {1, 2}]

InitDedupe ==
    /\ runner = "sherlock"
    /\ IdleRun
    /\ pc = "collected"
    /\ c_info = NoInfo
    /\ c_resp = NoResp
    /\ c_exists = "idle"
    /\ profiles \in SeqsUpTo(DedupeRecords, MaxProfiles)
    /\ history = <<>>
    /\ strict = FALSE

\* profiles = _dedupe_profiles(profiles), applied a first and a second time
Dedupe ==
    /\ pc = "collected"
    /\ Len(history) < 2
    /\ history' = Append(history, profiles)
    /\ profiles' = _dedupe_profiles(profiles)
    /\ UNCHANGED <<runVars, clsVars, strict>>

NextDedupe == Dedupe

SpecDedupe == InitDedupe /\ [][NextDedupe]_vars

\* ---------------------------------------------------- the --strict filter
MaxKept == 1        \* longest list handed to the strict filter

StrictUrls ==
    {PyNone, PyStr(<<"/", "x">>), PyStr(<<"/", "A", "l", "i", "c", "e">>), PyStr(<<"/", "l", "o", "g", "i", "n">>),
     PyStr(<<"/", "L", "o", "g", "i", "n", "/", "a", "l", "i", "c", "e">>)}

StrictTitles == {PyNone, PyInt(1), PyStr(<<"x">>), PyStr(<<"A", "l", "i", "c", "e">>)}

StrictDescriptions ==
    {PyNone, PyStr(<<"x">>), PyStr(<<"a", "l", "i", "c", "e">>), PyStr(<<"b", "o", "b">>)}

StrictSources == {PyNone, PyStr("sherlock"), PyStr("site_list")}

StrictRecords ==
    [existe : BOOLEAN,
     network_name : {<<"a", "v", "i", "z", "o">>, <<"d", "e", "m", "o">>},
     username : {<<"a", "l", "i", "c", "e">>},
     url : {PyStr(<<"/", "x">>), PyStr(<<"/", "a", "l", "i", "c", "e">>)},
     metadata : [source : StrictSources, final_url : StrictUrls,
                 title : StrictTitles, meta_description : StrictDescriptions]]

StrictNames == {<<"a", "l", "i", "c", "e">>, <<"A", "L", "I", "C", "E">>, <<"b", "o", "b">>}

InitStrict ==
    /\ runner = "sherlock"
    /\ manifest = <<>>
    /\ usernames \in SeqsUpTo(StrictNames, MaxUsers)
    /\ max_concurrency = 1
    /\ no_nsfw = FALSE
    /\ categories = PyNone
    /\ progress_callback = "none"
    /\ pc = "scanned"
    /\ sem = 0
    /\ waiters = <<>>
    /\ items = <<>>
    /\ total = 0
    /\ client = "closed"
    /\ tasks = <<>>
    /\ finished = <<>>
    /\ completed = 0
    /\ found = <<>>
    /\ calls = <<>>
    /\ c_info = NoInfo
    /\ c_resp = NoResp
    /\ c_exists = "idle"
    /\ \E n \in 0..MaxKept : profiles \in [1..n -> StrictRecords]
    /\ history = <<>>
    /\ strict \in BOOLEAN

\* _hunt_async after the scans: dedupe, then the strict filter
PostProcess ==
    /\ pc = "scanned"
    /\ history' = Append(history, profiles)
    /\ profiles' = StrictFilter(_dedupe_profiles(profiles), strict, usernames)
    /\ pc' = "postprocessed"
    /\ UNCHANGED <<runner, manifest, usernames, max_concurrency, no_nsfw,
                   categories, progress_callback, sem, waiters, items, total,
                   client, tasks, finished, completed, found, calls, clsVars,
                   strict>>

NextStrict == PostProcess

SpecStrict == InitStrict /\ [][NextStrict]_vars

\* ------------------------------------------------------------ _slug alone
MaxName == 4        \* longest site name enumerated character by character
LongName == 61      \* length of the long site names

NameChars == {" ", "A", "a", "-", "_", "!"}

\* site names longer than the slug may be: letters only, and letters with a
\* replaced character at the cut
LongNames ==
    {[i \in 1..LongName |-> "a"],
     [i \in 1..LongName |-> IF i = LongName - 1 THEN "!" ELSE "a"]}

InitSlug ==
    /\ runner \in {"sherlock", "username"}
    /\ IdleRun
    /\ IdleHunt
    /\ pc = "slug"
    /\ \/ \E n \in 0..MaxName : c_info \in [1..n -> NameChars]
       \/ c_info \in LongNames
    /\ c_resp = NoResp
    /\ c_exists = "idle"

\* network_name=_slug(site_name), in the runner at hand
ComputeSlug ==
    /\ pc = "slug"
    /\ c_exists = "idle"
    /\ c_resp' = IF runner = "sherlock" THEN _slug(c_info)
                 ELSE _slug_site_lists(c_info)
    /\ c_exists' = "done"
    /\ UNCHANGED <<runVars, c_info, cliVars>>

NextSlug == ComputeSlug

SpecSlug == InitSlug /\ [][NextSlug]_vars

\* --------------------------------------------------------- safe_scan alone
\* scanner classes and name.removesuffix("Scanner").lower() of each
ScannerNetwork ==
    [GitHubScanner |-> "github", AboutMeScanner |-> "aboutme", XScanner |-> "x"]

ScannerNames == DOMAIN ScannerNetwork

\* a url is a sequence of pieces; "example.invalid/x/" is the placeholder piece
XPlaceholder == "example.invalid/x/"

ScanValues == {"alice", "bob"}

\* derived_from: None, or the email a local part was taken from
DerivedFroms == {<<>>, <<"a@b">>}

ScanMeta(isDict, derived, error, scanner) ==
    [dict |-> isDict, derived_from |-> derived, error |-> error,
     scanner |-> scanner]

\* the main profile a scanner builds
ScanProfiles ==
    [url : {PyNone, PyStr(<<"https://", "github.com/", "alice">>),
            PyStr(<<"https://", XPlaceholder, "alice">>)},
     username : {"alice"},
     network_name : {"github"},
     existe : BOOLEAN,
     metadata : {ScanMeta(TRUE, <<>>, <<>>, <<>>), ScanMeta(FALSE, <<>>, <<>>, <<>>)}]

\* an extra profile, as GitHubScanner and AboutMeScanner add
ExtraProfile ==
    [url |-> PyStr(<<"https://", "github.com/", "carol">>), username |-> "carol",
     network_name |-> "github_user", existe |-> TRUE,
     metadata |-> ScanMeta(TRUE, <<>>, <<>>, <<>>)]

\* what scanner.scan(value) does: raise, return a profile, or return
\* [main_profile] + extra_profiles
ScanOutcomes ==
    {[kind |-> "raise", exc |-> e, profs |-> <<>>] : e \in {"timeout", "boom"}}
    \cup {[kind |-> "profile", exc |-> "", profs |-> <<p>>] : p \in ScanProfiles}
    \cup {[kind |-> "list", exc |-> "", profs |-> <<p, ExtraProfile>>] :
             p \in ScanProfiles}

ReplacePiece(url, old, new) ==
    [i \in 1..Len(url) |-> IF url[i] = old THEN new ELSE url[i]]

ScanResult(tag, profs) == [tag |-> tag, v |-> profs]

\* safe_scan of _hunt_async
HuntSafeScan(name, value, derived_from, outcome) ==
    LET network == ScannerNetwork[name]
        Fallback(exc) ==
            ScanResult("profile",
                <<[url |-> PyStr(<<"https://", network, ".com/", value>>),
                   username |-> value,
                   network_name |-> network,
                   existe |-> FALSE,
                   metadata |-> ScanMeta(TRUE, derived_from, <<exc>>, <<name>>)]>>)
    IN IF outcome.kind = "raise" THEN Fallback(outcome.exc)
       ELSE IF outcome.kind = "list"
       THEN IF derived_from # <<>>
            THEN Fallback("'list' object has no attribute 'metadata'")
            ELSE Fallback("'list' object has no attribute 'url'")
       ELSE LET prof == outcome.profs[1]
                tagged == IF derived_from # <<>> /\ prof.metadata.dict
                          THEN [prof EXCEPT !.metadata.derived_from = derived_from]
                          ELSE prof
                patched ==
                    IF /\ tagged.url.tag = "str"
                       /\ \E i \in 1..Len(tagged.url.v) : tagged.url.v[i] = XPlaceholder
                    THEN [tagged EXCEPT
                            !.url.v = ReplacePiece(@, XPlaceholder, "x.com/")]
                    ELSE tagged
            IN ScanResult("profile", <<patched>>)

\* safe_scan of _scan_async
ScanSafeScan(name, target, outcome) ==
    LET network == ScannerNetwork[name]
    IN IF outcome.kind = "raise"
       THEN ScanResult("profile",
                <<[url |-> PyStr(<<"https://example.invalid/", network, "/", target>>),
                   username |-> target,
                   network_name |-> network,
                   existe |-> FALSE,
                   metadata |-> ScanMeta(TRUE, <<>>, <<outcome.exc>>, <<name>>)]>>)
       ELSE ScanResult(IF outcome.kind = "list" THEN "list" ELSE "profile",
                       outcome.profs)

InitScan ==
    /\ runner = "sherlock"
    /\ IdleRun
    /\ IdleHunt
    /\ pc = "scan"
    /\ \E fn \in {"_hunt_async", "_scan_async"}, name \in ScannerNames,
          value \in ScanValues, derived \in DerivedFroms, outcome \in ScanOutcomes :
          /\ fn = "_scan_async" => derived = <<>>
          /\ c_info = [fn |-> fn, scanner |-> name, value |-> value,
                       derived_from |-> derived, outcome |-> outcome]
    /\ c_resp = NoResp
    /\ c_exists = "idle"

\* one safe_scan coroutine, and its result gathered into `profiles`
SafeScan ==
    /\ pc = "scan"
    /\ c_exists = "idle"
    /\ profiles' = Append(profiles,
           IF c_info.fn = "_hunt_async"
           THEN HuntSafeScan(c_info.scanner, c_info.value, c_info.derived_from,
                             c_info.outcome)
           ELSE ScanSafeScan(c_info.scanner, c_info.value, c_info.outcome))
    /\ c_exists' = "done"
    /\ UNCHANGED <<runVars, c_info, c_resp, history, strict>>

NextScan == SafeScan

SpecScan == InitScan /\ [][NextScan]_vars

\* ------------------------------------------- claims on the classification
\* the entry's errorType names rule t (as the string itself or inside a list)
Declares(info, t) ==
    \/ info.errorType = PyStr(t)
    \/ /\ info.errorType.tag = "list"
       /\ \E i \in 1..Len(info.errorType.v) : info.errorType.v[i] = PyStr(t)

\* the not-found codes an entry gives, as a set
NotFoundCodes(info) ==
    IF info.errorCode.tag = "int" THEN {info.errorCode.v}
    ELSE IF info.errorCode.tag = "list"
         THEN {info.errorCode.v[i].v :
                  i \in {j \in 1..Len(info.errorCode.v) : info.errorCode.v[j].tag = "int"}}
    ELSE {}

\* the marker strings an entry gives, as a set (an empty string is no marker)
MarkerSet(info) ==
    IF info.errorMsg.tag = "str"
    THEN (IF info.errorMsg.v = <<>> THEN {} ELSE {info.errorMsg.v})
    ELSE IF info.errorMsg.tag = "list"
         THEN {info.errorMsg.v[i].v :
                  i \in {j \in 1..Len(info.errorMsg.v) : info.errorMsg.v[j].tag = "str"}}
    ELSE {}

Classified == pc = "check" /\ c_exists # "idle"
SeenText == ResponseText(c_info, c_resp.body)
SaysExists == c_exists = "yes"

\* C8: the verdict follows the precedence response_url, then status_code (by
\* status and errorCode alone), then message (by the markers and the text
\* alone), then the success range, whatever the order of the errorType list.
C8_Precedence ==
    Classified =>
        IF Declares(c_info, "response_url")
        THEN SaysExists <=> SuccessStatus(c_resp.status)
        ELSE IF Declares(c_info, "status_code")
        THEN SaysExists <=> (/\ SuccessStatus(c_resp.status)
                             /\ c_resp.status \notin NotFoundCodes(c_info))
        ELSE IF Declares(c_info, "message")
        THEN SaysExists <=> (\A m \in MarkerSet(c_info) : ~StrIn(m, SeenText))
        ELSE SaysExists <=> SuccessStatus(c_resp.status)

\* all three rules declared, response_url last in the list, the status a
\* not-found code and a marker in the text: response_url alone says exists
C8_Witness ==
    /\ Classified
    /\ c_info.errorType = PyList(<<PyStr("message"), PyStr("status_code"),
                                   PyStr("response_url")>>)
    /\ c_resp.status = 200
    /\ 200 \in NotFoundCodes(c_info)
    /\ \E m \in MarkerSet(c_info) : StrIn(m, SeenText)
    /\ SaysExists

StatusCodeDecides(info) ==
    Declares(info, "status_code") /\ ~Declares(info, "response_url")

\* errorCode is an int or a list of ints
CodesWellFormed(info) ==
    \/ info.errorCode.tag = "int"
    \/ /\ info.errorCode.tag = "list"
       /\ \A i \in 1..Len(info.errorCode.v) : info.errorCode.v[i].tag = "int"

\* C9: when status_code decides, with not-found codes E: every status outside
\* [200,300) is not-exists, every status in E is not-exists, any other exists.
C9_StatusRule ==
    (Classified /\ StatusCodeDecides(c_info) /\ CodesWellFormed(c_info)) =>
        /\ (c_resp.status < 200 \/ c_resp.status >= 300) => ~SaysExists
        /\ c_resp.status \in NotFoundCodes(c_info) => ~SaysExists
        /\ (/\ 200 <= c_resp.status
            /\ c_resp.status < 300
            /\ c_resp.status \notin NotFoundCodes(c_info)) => SaysExists

\* E = [200, 404] as a list: status 299 exists
C9_Witness ==
    /\ Classified
    /\ StatusCodeDecides(c_info)
    /\ c_info.errorCode = PyList(<<PyInt(200), PyInt(404)>>)
    /\ c_resp.status = 299
    /\ SaysExists

MessageDecides(info) ==
    /\ Declares(info, "message")
    /\ ~Declares(info, "response_url")
    /\ ~Declares(info, "status_code")

\* errorMsg is a non-empty string or a list of strings
MarkersWellFormed(info) ==
    \/ info.errorMsg.tag = "str" /\ info.errorMsg.v # <<>>
    \/ /\ info.errorMsg.tag = "list"
       /\ \A i \in 1..Len(info.errorMsg.v) : info.errorMsg.v[i].tag = "str"

\* C10: when message decides, with markers M: exists if and only if no marker
\* occurs in the body as a case-sensitive substring; one marker of a list
\* occurring is enough for not-exists.
C10_MessageRule ==
    (Classified /\ MessageDecides(c_info) /\ MarkersWellFormed(c_info)) =>
        /\ SaysExists <=> (\A m \in MarkerSet(c_info) : ~StrIn(m, SeenText))
        /\ (\E m \in MarkerSet(c_info) : StrIn(m, SeenText)) => ~SaysExists

\* a list of two markers of which only one occurs in the body, in another
\* case than the other marker: not-exists
C10_Witness ==
    /\ Classified
    /\ MessageDecides(c_info)
    /\ c_info.errorMsg = PyList(<<PyStr(<<"a">>), PyStr(<<"A">>)>>)
    /\ SeenText = <<"A", "A">>
    /\ ~SaysExists


\* errorType is no string and no list, or names none of the three rules
NoKnownRule(info) == \A t \in RuleNames : ~Declares(info, t)

\* errorMsg absent, empty or of a wrong type
MarkersMissing(info) ==
    \/ info.errorMsg.tag \notin {"str", "list"}
    \/ info.errorMsg.v = <<>>

\* errorCode absent or of a wrong type
CodesMissing(info) == info.errorCode.tag \notin {"int", "list"}

\* the rule that would decide has no usable data
RuleDataMalformed(info) ==
    \/ NoKnownRule(info)
    \/ MessageDecides(info) /\ MarkersMissing(info)
    \/ StatusCodeDecides(info) /\ CodesMissing(info)

\* C11: whenever the rule data of the entry is malformed or missing (unknown or
\* non-string errorType, message without usable errorMsg, status_code without
\* usable errorCode) the verdict is the fallback: exists iff 200 <= status < 300.
C11_MalformedFallsBack ==
    (Classified /\ RuleDataMalformed(c_info)) =>
        (SaysExists <=> SuccessStatus(c_resp.status))

Matched == pc = "match" /\ c_exists # "idle"

\* C12: a site-list response is found iff the status equals e_code, e_string
\* occurs in the body, m_code (when set) differs from the status and m_string
\* (when set, i.e. a non-empty string) does not occur in the body; nothing
\* else (no errorType precedence, no success range) enters the verdict.
C12_FourConditions ==
    Matched =>
        (SaysExists <=>
            /\ c_resp.status = c_info.e_code
            /\ StrIn(c_info.e_string, c_resp.body)
            /\ (c_info.m_code # PyNone => c_info.m_code.v # c_resp.status)
            /\ (Truthy(c_info.m_string) =>
                   ~StrIn(c_info.m_string.v, c_resp.body)))

\* status 200 = e_code = m_code with e_string in the body: the success range
\* would say exists, the four conditions say not found
C12_Witness ==
    /\ Matched
    /\ c_resp.status = 200
    /\ c_info.e_code = 200
    /\ c_info.m_code = PyInt(200)
    /\ c_info.e_string # <<>>
    /\ StrIn(c_info.e_string, c_resp.body)
    /\ c_info.m_string = PyNone
    /\ ~SaysExists

\* ---------------------------------------------------- claims on the runners
Running == pc \in {"running", "returned"}
TaskIds == 1..Len(tasks)
Sherlock == runner = "sherlock"
HasCallback == progress_callback # "none"
TasksWith(o) == {k \in TaskIds : tasks[k].outcome = o}
ExpectedTasks == Len(items) * Len(usernames)

\* C1: with max_concurrency >= 1, the requests sent and not yet answered or
\* failed never outnumber max_concurrency, over all tasks of the run.
C1_ConcurrencyBound ==
    max_concurrency >= 1 => Cardinality(InFlight) <= max_concurrency

\* a catalog of at least 2 x max_concurrency entries, the ceiling reached and
\* tasks held back behind it
C1_Witness ==
    /\ max_concurrency >= 1
    /\ Len(items) >= 2 * max_concurrency
    /\ Cardinality(InFlight) = max_concurrency
    /\ waiters # <<>>

\* C2: run_sherlock_username creates len(items) x len(usernames) tasks; when it
\* returns, every task (found, not found, failed, without url) has ticked one
\* completion callback and the last callback carries done = that count, once.
C2_TasksAndTicks ==
    (Sherlock /\ Running) =>
        /\ Len(tasks) = ExpectedTasks
        /\ (pc = "returned" /\ HasCallback) =>
              /\ Len(calls) = 1 + Len(tasks)
              /\ calls[Len(calls)].done = ExpectedTasks
              /\ Cardinality({i \in 1..Len(calls) : calls[i].done = ExpectedTasks}) = 1

\* a run that returned after a task without url, a failed one and a found one
C2_Witness ==
    /\ Sherlock /\ pc = "returned" /\ HasCallback
    /\ Len(tasks) = 4
    /\ TasksWith("nourl") # {}
    /\ TasksWith("failed") # {}
    /\ TasksWith("found") # {}

\* C3: the done values of the completion callbacks are 1, 2, ... in that
\* order, the callback with done = k comes only after k tasks have completed,
\* and a run that returns has delivered all of 1..N.
C3_DoneSequence ==
    (Sherlock /\ HasCallback) =>
        /\ \A i \in 2..Len(calls) : calls[i].done = i - 1
        /\ Len(calls) >= 1 => Len(calls) - 1 <= Len(finished)
        /\ \A i \in 2..Len(calls) : tasks[finished[i - 1]].st = "done"
        /\ pc = "returned" => Len(calls) - 1 = Len(tasks)

\* two ticks delivered for tasks that completed against the submission order
C3_Witness ==
    /\ Sherlock /\ HasCallback
    /\ Len(calls) >= 3
    /\ finished[1] > finished[2]

\* C4: the first callback reports total = |sites| x |identifiers| before any
\* task starts, an empty identifier list included (total 0).
C4_TotalIsCrossProduct ==
    (Sherlock /\ HasCallback /\ pc # "start") =>
        /\ Len(calls) >= 1
        /\ calls[1].done = 0
        /\ calls[1].total = Len(items) * Len(usernames)
        /\ (pc = "filtered" \/ pc = "raised") => tasks = <<>>

\* C5: a progress callback that raises never interrupts the run: nothing is
\* raised to the caller.
C5_CallbackNeverInterrupts == pc # "raised"

\* the records of the tasks that found a profile, against the returned list
FoundCount(p) == Cardinality({i \in 1..Len(found) : found[i] = p})
TaskCount(p) == Cardinality({k \in TaskIds : tasks[k].result = <<p>>})

\* C6: in the three runners a task whose request fails leaves no record and
\* raises nothing; when the run returns, every sibling has sent its request
\* and every sibling classified exists has its record in the returned list.
C6_FailureIsolated ==
    \A k \in TaskIds :
        tasks[k].outcome = "failed" =>
            /\ tasks[k].result = <<>>
            /\ pc # "raised"
            /\ pc = "returned" =>
                  /\ Len(found) = Cardinality(TasksWith("found"))
                  /\ \A j \in TaskIds \ {k} :
                        /\ tasks[j].outcome # "nourl" => tasks[j].requests = 1
                        /\ tasks[j].outcome = "found" =>
                              FoundCount(tasks[j].result[1])
                                  = TaskCount(tasks[j].result[1])

\* run_email_sites returned: one task failed, a sibling admitted after it found
C6_Witness ==
    /\ runner = "email" /\ pc = "returned"
    /\ \E k, j \in TaskIds :
          /\ k < j
          /\ tasks[k].outcome = "failed"
          /\ tasks[j].outcome = "found"
          /\ Len(found) = 1

\* requests sent for the pair (catalog entry i, identifier u)
RECURSIVE RequestsOfPair(_, _, _)
RequestsOfPair(i, u, k) ==
    IF k = 0 THEN 0
    ELSE RequestsOfPair(i, u, k - 1)
         + (IF tasks[k].site = i /\ usernames[tasks[k].user] = u
            THEN tasks[k].requests ELSE 0)

Range(l) == {l[i] : i \in 1..Len(l)}

\* C7 as stated: when the run returns, every pair of a filtered entry and an
\* identifier of the list has had exactly one request.
C7_ExactlyOnePerPair ==
    pc = "returned" =>
        \A i \in Range(items), u \in Range(usernames) :
            RequestsOfPair(i, u, Len(tasks)) = 1

HasUrl(i) == runner # "sherlock" \/ UsableUrl(manifest[i])

\* C7 amended: no task ever sends a second request and a task of an entry
\* without usable url sends none; when the run returns every task of an entry
\* with a usable url has sent exactly one, so that a pair has had as many
\* requests as the identifier has occurrences in the list.
C7_OncePerTask ==
    /\ \A k \in TaskIds :
          /\ tasks[k].requests <= 1
          /\ ~HasUrl(tasks[k].site) => tasks[k].requests = 0
          /\ (pc = "returned" /\ HasUrl(tasks[k].site)) => tasks[k].requests = 1
    /\ pc = "returned" =>
          \A i \in Range(items), u \in Range(usernames) :
              RequestsOfPair(i, u, Len(tasks)) =
                  IF HasUrl(i)
                  THEN Cardinality({j \in 1..Len(usernames) : usernames[j] = u})
                  ELSE 0

\* a returned run with an entry without url, a failed request and a negative
\* verdict: none of them probed again
C7_Witness ==
    /\ pc = "returned"
    /\ \E k \in TasksWith("nourl") : tasks[k].requests = 0
    /\ \E k \in TasksWith("failed") : tasks[k].requests = 1
    /\ \E k \in TasksWith("notfound") : tasks[k].requests = 1


\* C13: a task classified exists holds one record, with existe = TRUE, the
\* identifier it probed and the slug of its site name, any other task holds
\* none; when the runner returns, under every interleaving of the completions,
\* the returned list is made of exactly these records, each as many times as
\* there are tasks that built it.
C13_OneRecordPerFound ==
    /\ \A k \in TaskIds :
          IF tasks[k].outcome = "found"
          THEN /\ Len(tasks[k].result) = 1
               /\ tasks[k].result[1].existe
               /\ tasks[k].result[1].username = usernames[tasks[k].user]
               /\ tasks[k].result[1].network_name
                      = _slug(SiteName(tasks[k].site))
          ELSE tasks[k].result = <<>>
    /\ pc = "returned" =>
          /\ Len(found) = Cardinality(TasksWith("found"))
          /\ \A k \in TasksWith("found") : tasks[k].result[1] \in Range(found)
          /\ \A p \in Range(found) : p.existe /\ FoundCount(p) = TaskCount(p)

\* run_sherlock_username returned: two tasks of different sites found and
\* completed against the submission order, a third was classified not found
C13_Witness ==
    /\ Sherlock /\ pc = "returned"
    /\ Len(found) = 2
    /\ found[1].network_name = <<"a", "a">>
    /\ found[2].network_name = <<"a">>
    /\ TasksWith("notfound") # {}


\* ------------------------------------------- claims on the CLI's post-processing
\* positions of l that hold the first record of their key
FirstOfKey(l) ==
    {i \in 1..Len(l) : \A j \in 1..(i - 1) : DedupeKey(l[j]) # DedupeKey(l[i])}

\* the n-th smallest element of a set of positions
NthOf(S, n) == CHOOSE i \in S : Cardinality({j \in S : j < i}) = n - 1

\* C14: _dedupe_profiles returns the records at the positions that hold the
\* first record of each (network_name, username, url) key, whole (with their
\* metadata) and in the order of the input; applied to its own result it
\* returns it unchanged.
C14_FirstOfEachKey ==
    (pc = "collected" /\ history # <<>>) =>
        /\ LET input == history[1]
               output == IF Len(history) = 1 THEN profiles ELSE history[2]
           IN /\ Len(output) = Cardinality(FirstOfKey(input))
              /\ \A n \in 1..Len(output) :
                    output[n] = input[NthOf(FirstOfKey(input), n)]
        /\ Len(history) = 2 => profiles = history[2]

\* three records, the second a new key, the third a duplicate of the first
\* with other metadata: the first two are kept, twice over
C14_Witness ==
    /\ pc = "collected"
    /\ Len(history) = 2
    /\ Len(history[1]) = 3
    /\ DedupeKey(history[1][3]) = DedupeKey(history[1][1])
    /\ history[1][3].metadata # history[1][1].metadata
    /\ DedupeKey(history[1][2]) # DedupeKey(history[1][1])
    /\ profiles = <<history[1][1], history[1][2]>>


\* the strict filter has run over the records of history[1]
StrictRan == pc = "postprocessed" /\ strict /\ usernames # <<>>
Scanned == Range(history[1])
Kept(p) == p \in Range(profiles)
FromManifest(p) == p.metadata.source = PyStr("sherlock")
Denied(p) == p.network_name \in _STRICT_SHERLOCK_DENYLIST
Evidence(p) == \E i \in 1..Len(usernames) : IdentifierEvidence(p, usernames[i])

\* C15: the strict filter drops no record whose metadata source is not
\* 'sherlock', whatever its existe flag.
C15_OtherSourcesPass ==
    StrictRan => \A p \in Scanned : ~FromManifest(p) => Kept(p)

\* C16 as stated: a manifest record with a suspicious final url is kept when
\* an identifier appears in its final url, title or description.
C16_EvidenceOverridesSuspicion ==
    StrictRan =>
        \A p \in Scanned :
            (/\ FromManifest(p) /\ p.existe /\ ~Denied(p)
             /\ Suspicious(FinalUrlLower(p))
             /\ Evidence(p)) => Kept(p)

\* C16 amended: a manifest record whose lower-cased final url (metadata
\* final_url, else the record url) contains a suspicious fragment is dropped,
\* whether or not an identifier appears in its url, title or description.
C16_SuspiciousDropped ==
    StrictRan =>
        \A p \in Scanned :
            (FromManifest(p) /\ Suspicious(FinalUrlLower(p))) => ~Kept(p)

\* an existing manifest record off the deny-list, final url /Login/alice,
\* identifier alice: dropped
C16_Witness ==
    /\ StrictRan
    /\ \E p \in Scanned :
          /\ FromManifest(p) /\ p.existe /\ ~Denied(p)
          /\ p.metadata.final_url = PyStr(<<"/", "L", "o", "g", "i", "n", "/", "a", "l", "i", "c", "e">>)
          /\ Evidence(p)
          /\ ~Kept(p)

\* C17 as stated: a manifest record off the deny-list, without suspicious
\* fragment and without any identifier in url, title and description is kept.
C17_DenyBiased ==
    StrictRan =>
        \A p \in Scanned :
            (/\ FromManifest(p) /\ p.existe /\ ~Denied(p)
             /\ ~Suspicious(FinalUrlLower(p))
             /\ ~Evidence(p)) => Kept(p)

\* C17 amended: an existing manifest record off the deny-list and without
\* suspicious fragment is kept if and only if some identifier of the run,
\* lower-cased, occurs in its lower-cased final url, title or description;
\* without such evidence it is dropped.
C17_EvidenceRequired ==
    StrictRan =>
        \A p \in Scanned :
            (/\ FromManifest(p) /\ p.existe /\ ~Denied(p)
             /\ ~Suspicious(FinalUrlLower(p))) => (Kept(p) <=> Evidence(p))

\* final url /x, a title and a description that do not name the identifier:
\* dropped
C17_Witness ==
    /\ StrictRan
    /\ \E p \in Scanned :
          /\ FromManifest(p) /\ p.existe /\ ~Denied(p)
          /\ p.metadata.final_url = PyStr(<<"/", "x">>)
          /\ p.metadata.title = PyStr(<<"x">>)
          /\ p.metadata.meta_description = PyStr(<<"x">>)
          /\ ~Evidence(p)
          /\ ~Kept(p)

\* C18 as stated: a manifest record on the deny-list is dropped when no
\* identifier appears in it, and kept when its final url contains one.
C18_DenyListUnlessEvidence ==
    StrictRan =>
        \A p \in Scanned :
            (FromManifest(p) /\ p.existe /\ Denied(p)) =>
                /\ ~Evidence(p) => ~Kept(p)
                /\ (/\ ~Suspicious(FinalUrlLower(p))
                    /\ \E i \in 1..Len(usernames) :
                          StrIn(Lower(usernames[i]), FinalUrlLower(p)))
                   => Kept(p)

\* C18 amended: a manifest record whose network is on the deny-list is
\* dropped, with or without an identifier in its final url, title or
\* description.
C18_DenyListDropped ==
    StrictRan =>
        \A p \in Scanned : (FromManifest(p) /\ Denied(p)) => ~Kept(p)

\* network avizo, final url /Alice, identifier alice: dropped
C18_Witness ==
    /\ StrictRan
    /\ \E p \in Scanned :
          /\ FromManifest(p) /\ p.existe /\ Denied(p)
          /\ p.metadata.final_url = PyStr(<<"/", "A", "l", "i", "c", "e">>)
          /\ \E i \in 1..Len(usernames) :
                StrIn(Lower(usernames[i]), FinalUrlLower(p))
          /\ ~Kept(p)


\* ------------------------------------------------ claims on the catalog filter
ListRunner == runner \in {"username", "email"}

\* the entry has a category that is, lower-cased, in the allow-list
InAllowList(s) ==
    /\ s.cat.tag = "str"
    /\ s.cat.v # <<>>
    /\ Lower(s.cat.v) \in categories.v

\* the entry is NSFW: isNSFW truthy (manifest), "nsfw" in the category (list)
IsNsfwEntry(s) ==
    IF Sherlock THEN Truthy(s.isNSFW)
    ELSE s.cat.tag = "str" /\ StrIn(<<"n", "s", "f", "w">>, Lower(s.cat.v))

\* C19: in run_username_sites and run_email_sites, with categories not None
\* (the empty set included), the entries kept and probed are exactly those
\* whose category is in the allow-list (and that the NSFW exclusion leaves);
\* an entry without category sends no request.
C19_AllowListExact ==
    (ListRunner /\ categories # PyNone /\ pc # "start") =>
        /\ Range(items) = {i \in 1..Len(manifest) :
                              /\ InAllowList(manifest[i])
                              /\ ~(no_nsfw /\ IsNsfwEntry(manifest[i]))}
        /\ \A k \in TaskIds :
              tasks[k].requests > 0 => InAllowList(manifest[tasks[k].site])

\* the manifest entries that are dicts under a key other than "$schema"
WellFormedEntries ==
    {i \in 1..Len(manifest) : manifest[i].key # "$schema" /\ manifest[i].isDict}

\* C20: with no_nsfw set no task exists for an NSFW entry and no request is
\* ever sent for one, in the three runners; the total of run_sherlock_username
\* is the one of the catalog without its NSFW entries.
C20_NoNsfwProbe ==
    no_nsfw =>
        /\ \A i \in Range(items) : ~IsNsfwEntry(manifest[i])
        /\ \A k \in TaskIds :
              /\ ~IsNsfwEntry(manifest[tasks[k].site])
              /\ tasks[k].site \in Range(items)
        /\ (Sherlock /\ pc # "start") =>
              total = Total(Cardinality({i \in WellFormedEntries :
                                            ~IsNsfwEntry(manifest[i])}),
                            Len(usernames))

\* run_sherlock_username returned with no_nsfw: the NSFW entry came first in
\* the manifest, the other entry alone was counted and probed
C20_Witness ==
    /\ Sherlock /\ no_nsfw /\ HasCallback /\ pc = "returned"
    /\ Len(manifest) = 2
    /\ IsNsfwEntry(manifest[1])
    /\ items = <<2>>
    /\ usernames # <<>>
    /\ total = Len(usernames)
    /\ \A k \in TaskIds : tasks[k].site = 2 /\ tasks[k].requests = 1


\* C21 as stated: the "$schema" key, a value that is no mapping and an entry
\* without usable url are all outside the filtered site set.
C21_MalformedNotFiltered ==
    (Sherlock /\ pc # "start") =>
        \A i \in Range(items) :
            /\ manifest[i].key # "$schema"
            /\ manifest[i].isDict
            /\ UsableUrl(manifest[i])

\* C21 amended: the "$schema" key and a value that is no mapping are outside
\* the filtered set and get no task; an entry without usable url is inside it
\* (counted in the total, one task per identifier) but its tasks send no
\* request and build no record; nothing is raised for any of them and, when
\* the run returns, every task of an entry with a usable url has been probed.
C21_MalformedSkipped ==
    (Sherlock /\ pc # "start") =>
        /\ Range(items) = {i \in WellFormedEntries :
                              ~(no_nsfw /\ IsNsfwEntry(manifest[i]))}
        /\ total = Total(Len(items), Len(usernames))
        /\ Running => Len(tasks) = Len(items) * Len(usernames)
        /\ \A k \in TaskIds :
              /\ tasks[k].site \in WellFormedEntries
              /\ ~UsableUrl(manifest[tasks[k].site]) =>
                    /\ tasks[k].requests = 0
                    /\ tasks[k].result = <<>>
                    /\ tasks[k].outcome \in {"none", "nourl"}
              /\ (pc = "returned" /\ UsableUrl(manifest[tasks[k].site])) =>
                    tasks[k].requests = 1
        /\ progress_callback # "raises_first" => pc # "raised"

\* an entry without url before a good one: it is counted and ticked, never
\* requested, and the good entry is found
C21_Witness ==
    /\ Sherlock /\ HasCallback /\ pc = "returned"
    /\ items = <<1, 2>>
    /\ ~UsableUrl(manifest[1])
    /\ Len(usernames) = 1
    /\ total = 2
    /\ Len(calls) = 3
    /\ tasks[1].outcome = "nourl" /\ tasks[1].requests = 0
    /\ tasks[2].outcome = "found"


\* ------------------------------------------------------ claims on liveness
\* C22: when every request sent is answered or fails, every run returns to
\* its caller; by then every task is done, every task that had to wait for a
\* permit was admitted and sent its request, and every permit is back,
\* whether the probes ended in a record, a negative verdict or a failure.
C22_EventuallyReturns ==
    /\ <>(pc = "returned")
    /\ [](pc = "returned" =>
             /\ sem = Max(1, max_concurrency)
             /\ waiters = <<>>
             /\ \A k \in TaskIds :
                   /\ tasks[k].st = "done"
                   /\ HasUrl(tasks[k].site) => tasks[k].requests = 1)

\* a returned run of ceiling 1 with four tasks, one failed, one not found, one
\* found: the others waited behind each of them
C22_Witness ==
    /\ pc = "returned"
    /\ max_concurrency = 1
    /\ Len(tasks) = 4
    /\ TasksWith("failed") # {}
    /\ TasksWith("notfound") # {}
    /\ TasksWith("found") # {}
    /\ sem = 1


\* ------------------------------------------------------------ claims on _slug
Slugged == pc = "slug" /\ c_exists = "done"
SlugChars == {"a", "-", "_"}

\* the character _slug writes for one character of the name
SlugChar(c) == IF c \in {"A", "a"} THEN "a" ELSE IF c = "_" THEN "_" ELSE "-"

\* the name neither starts nor ends with a blank or a character that becomes "-"
CleanEnds(name) ==
    /\ name # <<>>
    /\ name[1] \in {"A", "a", "_"}
    /\ name[Len(name)] \in {"A", "a", "_"}

\* C23 as stated: no slug holds two adjacent separators.
C23_NoAdjacentSeparators ==
    Slugged =>
        \A i \in 1..(Len(c_resp) - 1) : ~(c_resp[i] = "-" /\ c_resp[i + 1] = "-")

\* C23 amended: the slug is the name without surrounding blanks, lower-cased,
\* with "-" for every single character that is not alphanumeric, "-" or "_"
\* (runs are not collapsed), without leading and trailing "-", cut to 60
\* characters, and "site" when nothing is left; it is never empty, never
\* longer than 60, and the same in both runners.
C23_SlugPerCharacter ==
    Slugged =>
        /\ c_resp # <<>>
        /\ Len(c_resp) <= SlugMax
        /\ c_resp = _slug(c_info)
        /\ c_resp = _slug_site_lists(c_info)
        /\ c_resp # <<"s", "i", "t", "e">> =>
              \A i \in 1..Len(c_resp) : c_resp[i] \in SlugChars
        /\ CleanEnds(c_info) =>
              /\ Len(c_resp) = (IF Len(c_info) < SlugMax THEN Len(c_info)
                                ELSE SlugMax)
              /\ \A i \in 1..Len(c_resp) : c_resp[i] = SlugChar(c_info[i])

\* the name "A !a": two characters in a row are replaced, the slug is "a--a"
C23_Witness ==
    /\ Slugged
    /\ runner = "username"
    /\ c_info = <<"A", " ", "!", "a">>
    /\ c_resp = <<"a", "-", "-", "a">>


\* ------------------------------------------------------- claims on HEAD entries
HeadEntry(info) == RequestMethod(info) = "HEAD"

\* errorMsg is a list that holds an empty string
HasEmptyMarker(info) ==
    /\ info.errorMsg.tag = "list"
    /\ \E i \in 1..Len(info.errorMsg.v) : info.errorMsg.v[i] = PyStr(<<>>)

\* C24 as stated: a HEAD entry is classified on an empty body, and when
\* message decides every response, of any status, is classified exists.
C24_HeadMessageAlwaysExists ==
    (Classified /\ HeadEntry(c_info)) =>
        /\ SeenText = <<>>
        /\ MessageDecides(c_info) => SaysExists

\* C24 amended: a HEAD entry is classified on an empty body; when message
\* decides, every response, of any status, is classified exists, except that
\* an errorMsg list holding an empty string makes every response not-exists.
C24_HeadSeesNoBody ==
    (Classified /\ HeadEntry(c_info)) =>
        /\ SeenText = <<>>
        /\ MessageDecides(c_info) => (SaysExists <=> ~HasEmptyMarker(c_info))

\* request_method "head", errorType message, the marker in the body that was
\* sent, status 500: exists
C24_Witness ==
    /\ Classified
    /\ c_info.request_method = PyStr("head")
    /\ MessageDecides(c_info)
    /\ c_info.errorMsg = PyStr(<<"a">>)
    /\ c_resp.body = <<"a">>
    /\ c_resp.status = 500
    /\ SaysExists


\* ------------------------------------------------------- claims on the labels
\* C25: the completion callback that reports a task's completion carries the
\* label sherlock:<site>:<identifier> of that very task, in every completion
\* order.
C25_LabelOfCompletedTask ==
    (Sherlock /\ HasCallback) =>
        \A i \in 2..Len(calls) : calls[i].label = LabelOf(finished[i - 1])


C27_NonPositiveIsOne ==
    max_concurrency <= 0 =>
        /\ Cardinality(InFlight) <= 1
        /\ pc # "start" => sem + Cardinality(InFlight) = 1
        /\ (pc = "running" /\ \E k \in TaskIds : tasks[k].st # "done") =>
              \/ InFlight # {}
              \/ \E k \in TaskIds : tasks[k].st = "created"
              \/ waiters # <<>> /\ sem > 0
        /\ pc = "returned" => \A k \in TaskIds : tasks[k].st = "done"

\* a run with a negative ceiling returned after one task held the permit
\* while the others queued, every request having been sent
C27_Witness ==
    /\ max_concurrency < 0
    /\ pc = "returned"
    /\ Len(tasks) >= 3
    /\ Cardinality({k \in TaskIds : tasks[k].requests = 1}) >= 3


\* ------------------------------- claims on the strict filter, many usernames
\* C28: under the strict filter with several usernames, a manifest record is
\* kept only when its own identifier appears in its final url, title or
\* description; the appearance of another username of the run never keeps it.
C28_OwnIdentifierOnly ==
    (StrictRan /\ Len(usernames) >= 2) =>
        \A p \in Scanned :
            (/\ FromManifest(p) /\ Kept(p)
             /\ \E i \in 1..Len(usernames) : usernames[i] = p.username)
                => IdentifierEvidence(p, p.username)


\* ------------------------------------------- the progress bar of _hunt_async
\* mutant: the pre-count ignores the NSFW setting
PreCountEntryAll(info, nsfw_off) ==
    IF info.key = "$schema" THEN 0
    ELSE IF ~info.isDict THEN 0
    ELSE 1

\* what one (username, manifest entry) pair adds to the pre-count
PreCountEntry(info, nsfw_off) ==
    IF info.key = "$schema" THEN 0
    ELSE IF ~info.isDict THEN 0
    ELSE IF nsfw_off /\ Truthy(info.isNSFW) THEN 0
    ELSE 1

\* for site_name, info in manifest.items(): ... total += 1
RECURSIVE PreCountSites(_)
PreCountSites(n) ==
    IF n = 0 THEN 0
    ELSE PreCountSites(n - 1) + PreCountEntry(manifest[n], no_nsfw)

\* for username in usernames: (the loop over the manifest)
RECURSIVE PreCountUsers(_)
PreCountUsers(u) ==
    IF u = 0 THEN 0
    ELSE PreCountUsers(u - 1) + PreCountSites(Len(manifest))

\* the total handed to progress.add_task
PreCount == PreCountUsers(Len(usernames))

\* _hunt_async runs the manifest runner with the bar's callback
BarRun == Sherlock /\ progress_callback = "ok" /\ usernames # <<>>

\* C29: for every manifest, NSFW setting and non-empty username list the
\* total pre-computed by _hunt_async equals the total of the runner's first
\* callback, no done value exceeds it, and the last done value of a run that
\* returned equals it.
C29_BarEndsComplete ==
    BarRun =>
        /\ pc # "start" => (calls[1].done = 0 /\ calls[1].total = PreCount)
        /\ \A i \in 1..Len(calls) : calls[i].done <= PreCount
        /\ pc = "returned" => calls[Len(calls)].done = PreCount

\* two usernames over a manifest with an NSFW entry filtered out and an entry
\* without url: the bar's total is 2 and the last tick delivers done = 2
C29_Witness ==
    /\ BarRun /\ pc = "returned"
    /\ no_nsfw /\ Len(usernames) = 2
    /\ \E i \in 1..Len(manifest) : _is_nsfw(manifest[i])
    /\ \E k \in TaskIds : tasks[k].outcome = "nourl"
    /\ PreCount = 2
    /\ calls[Len(calls)].done = 2


\* ------------------------------------------------------- claims on safe_scan
ScanDone == pc = "scan" /\ c_exists = "done"
Gathered == profiles[1]
IsErrorPlaceholder(p) == p.metadata.error # <<>>

\* C30: safe_scan of _hunt_async hands the aggregate one profile for its
\* (scanner, identifier) pair: when scan raises, a profile with existe false
\* that carries the error; when scan returns a profile or a list of profiles,
\* the scanner's own result and no error placeholder.
C30_ScanResultReachesAggregate ==
    (ScanDone /\ c_info.fn = "_hunt_async") =>
        /\ Len(profiles) = 1
        /\ Gathered.tag = "profile" /\ Len(Gathered.v) = 1
        /\ c_info.outcome.kind = "raise" =>
              /\ ~Gathered.v[1].existe
              /\ Gathered.v[1].metadata.error = <<c_info.outcome.exc>>
        /\ c_info.outcome.kind # "raise" =>
              /\ ~IsErrorPlaceholder(Gathered.v[1])
              /\ Gathered.v[1].existe = c_info.outcome.profs[1].existe

====
